---- MODULE Spec2Model ----
(***************************************************************************)
(* Model of pkg/tombstone/tombstone.go (kubexit).                          *)
(*                                                                         *)
(* Two parts share this module:                                            *)
(*   - the directory watch, Watch(ctx, graveyard, eventHandler): the       *)
(*     calling goroutine, the background goroutine it spawns, the          *)
(*     fsnotify watcher's Events/Errors channels, the context, and a       *)
(*     producer that changes the graveyard by Tombstone.Write's file       *)
(*     steps (SpecWatch, FairSpecWatch);                                   *)
(*   - the tombstone store, Write/RecordBirth/RecordDeath/Read run by      *)
(*     concurrent goroutines on Tombstone instances that name one path     *)
(*     (SpecStore; SpecStoreFaults adds the error returns of Write's       *)
(*     steps; SpecRoundTrip draws the records Write is called on).         *)
(***************************************************************************)
EXTENDS Integers, Sequences, FiniteSets, TLC

(***************************************************************************)
(* Bounds.                                                                 *)
(***************************************************************************)
\* file names of the graveyard are 1..MaxNames (ioutil.ReadDir sorts by name)
MaxNames == 2
\* Tombstone.Write calls the producer makes on the watched graveyard
MaxProducerWrites == 1
\* goroutines that call the store concurrently: 1..MaxGoroutines
MaxGoroutines == 2
\* calls of Write, RecordBirth and RecordDeath made in one run
MaxCalls == 2

Names == 1..MaxNames

VARIABLES
    \* ---- watch model ----
    graveyardFiles,  \* names of the files present in the graveyard directory
    handlerKind,     \* the eventHandler under test: "ok", "fail" or "either"
    ctxDone,         \* ctx.Done() is closed
    watchPc,         \* position of the goroutine that called Watch
    watchErr,        \* what Watch returned ("pending" until it returns)
    files,           \* Watch's local `files`: entries not yet ranged over
    workerPc,        \* position of the goroutine of lines 145-168
    watcherAdded,    \* watcher.Add(graveyard) has subscribed the watcher
    watcherClosed,   \* number of times watcher.Close() ran
    watcherEvents,   \* notifications waiting on watcher.Events, oldest first
    watcherErrors,   \* an error waits on watcher.Errors (unbuffered)
    producerPc,      \* a producer's Tombstone.Write: "idle" or "created"
    producerName,    \* the file the producer's Write is on
    watchCalls,      \* history: eventHandler invocations made by Watch
    workerCalls,     \* history: eventHandler invocations made by the goroutine
    emitted,         \* history: notifications the subsystem emitted, in order
    hist,            \* history: counters and snapshots the claims refer to
    \* ---- store model ----
    tomb,            \* the Tombstone instances: Born, Died, ExitCode pointers
    fileLock,        \* per instance: the goroutine holding t.fileLock, or 0
    dirExists,       \* the graveyard directory exists
    fileExists,      \* the file at graveyard/name exists
    fileBytes,       \* its content, a sequence of lines
    pc,              \* per goroutine: where it is in its call
    frame,           \* per goroutine: the call's arguments and locals
    clock,           \* time.Now()
    done,            \* history: the calls of Write, RecordBirth and
                     \* RecordDeath that returned, in order of return
    lastRead         \* what Read has just returned to its caller

varsWatch == <<graveyardFiles, handlerKind, ctxDone, watchPc, watchErr, files,
               workerPc, watcherAdded, watcherClosed, watcherEvents,
               watcherErrors, producerPc, producerName, watchCalls,
               workerCalls, emitted, hist>>

varsStore == <<tomb, fileLock, dirExists, fileExists, fileBytes, pc, frame,
               clock, done, lastRead>>

vars == <<varsWatch, varsStore>>

(***************************************************************************)
(* Helpers.                                                                *)
(***************************************************************************)
Min(S) == CHOOSE x \in S : \A y \in S : x <= y

\* ioutil.ReadDir returns the directory's entries sorted by filename.
RECURSIVE ReadDir(_)
ReadDir(dir) ==
    IF dir = {} THEN <<>>
    ELSE <<Min(dir)>> \o ReadDir(dir \ {Min(dir)})

\* fsnotify.Event{Name, Op}
Event(name, op) == [Name |-> name, Op |-> op]

\* What the eventHandler under test may return (FALSE: nil, TRUE: an error).
HandlerErrs ==
    CASE handlerKind = "ok"   -> {FALSE}
      [] handlerKind = "fail" -> {TRUE}
      [] OTHER                -> {FALSE, TRUE}

\* An eventHandler invocation starts: appended to the caller's history.
BeginCall(callsOf, event) ==
    Append(callsOf, [Name |-> event.Name, Op |-> event.Op, err |-> "running"])

\* The caller's running invocation, its last, returns err.
EndCall(callsOf, err) ==
    [callsOf EXCEPT ![Len(callsOf)].err = IF err THEN "error" ELSE "nil"]

\* History flags set when an invocation starts: ctx was already cancelled;
\* a notification is handled before Watch has returned.
NoteCall(liveCall) ==
    [hist EXCEPT !.calledAfterDone = @ \/ ctxDone,
                 !.liveBeforeReturn = @ \/ (liveCall /\ watchPc # "returned")]

\* The notification subsystem: a change in the graveyard is queued for the
\* watcher while it is subscribed and open.
Subscribed == watcherAdded /\ watcherClosed = 0

Notify(event) ==
    IF Subscribed THEN Append(watcherEvents, event) ELSE watcherEvents

Emit(event) ==
    IF Subscribed THEN Append(emitted, event) ELSE emitted

(***************************************************************************)
(* Initial state of the watch model: a graveyard with some tombstone files *)
(* already in it, an eventHandler, Watch not yet called.                   *)
(***************************************************************************)
InitWatch ==
    /\ graveyardFiles \in SUBSET Names
    /\ handlerKind \in {"ok", "fail", "either"}
    /\ ctxDone = FALSE
    /\ watchPc = "call"
    /\ watchErr = "pending"
    /\ files = <<>>
    /\ workerPc = "none"
    /\ watcherAdded = FALSE
    /\ watcherClosed = 0
    /\ watcherEvents = <<>>
    /\ watcherErrors = FALSE
    /\ producerPc = "idle"
    /\ producerName = 0
    /\ watchCalls = <<>>
    /\ workerCalls = <<>>
    /\ emitted = <<>>
    /\ hist = [filesAtCall |-> {}, changedDuringWatch |-> FALSE,
               producerWrites |-> 0, calledAfterDone |-> FALSE,
               liveBeforeReturn |-> FALSE, errorLogged |-> FALSE]

(***************************************************************************)
(* Watch, the calling goroutine (lines 139-192).                           *)
(***************************************************************************)
\* lines 140-168: fsnotify.NewWatcher() succeeds and the goroutine is spawned
WatchNewWatcher ==
    /\ watchPc = "call"
    /\ watchPc' = "add"
    /\ workerPc' = "select"
    /\ hist' = [hist EXCEPT !.filesAtCall = graveyardFiles]
    /\ UNCHANGED varsStore
    /\ UNCHANGED <<graveyardFiles, handlerKind, ctxDone, watchErr, files,
                   watcherAdded, watcherClosed, watcherEvents, watcherErrors,
                   producerPc, producerName, watchCalls, workerCalls, emitted>>

\* lines 140-143: fsnotify.NewWatcher() fails; no goroutine is spawned
WatchNewWatcherFails ==
    /\ watchPc = "call"
    /\ watchPc' = "returned"
    /\ watchErr' = "failed to create watcher"
    /\ hist' = [hist EXCEPT !.filesAtCall = graveyardFiles]
    /\ UNCHANGED varsStore
    /\ UNCHANGED <<graveyardFiles, handlerKind, ctxDone, files, workerPc,
                   watcherAdded, watcherClosed, watcherEvents, watcherErrors,
                   producerPc, producerName, watchCalls, workerCalls, emitted>>

\* line 170: watcher.Add(graveyard) subscribes (an open watcher only)
WatchAdd ==
    /\ watchPc = "add"
    /\ watcherClosed = 0
    /\ watcherAdded' = TRUE
    /\ watchPc' = "readdir"
    /\ UNCHANGED varsStore
    /\ UNCHANGED <<graveyardFiles, handlerKind, ctxDone, watchErr, files,
                   workerPc, watcherClosed, watcherEvents, watcherErrors,
                   producerPc, producerName, watchCalls, workerCalls, emitted,
                   hist>>

\* lines 170-173: watcher.Add fails; Watch returns, the goroutine stays
WatchAddFails ==
    /\ watchPc = "add"
    /\ watchPc' = "returned"
    /\ watchErr' = "failed to add watcher"
    /\ UNCHANGED varsStore
    /\ UNCHANGED <<graveyardFiles, handlerKind, ctxDone, files, workerPc,
                   watcherAdded, watcherClosed, watcherEvents, watcherErrors,
                   producerPc, producerName, watchCalls, workerCalls, emitted,
                   hist>>

\* Mutant of WatchReadDir: the range starts at the second entry.
WatchReadDir_SkipsFirst ==
    /\ watchPc = "readdir"
    /\ files' = IF graveyardFiles = {} THEN <<>>
                ELSE Tail(ReadDir(graveyardFiles))
    /\ watchPc' = "range"
    /\ UNCHANGED varsStore
    /\ UNCHANGED <<graveyardFiles, handlerKind, ctxDone, watchErr, workerPc,
                   watcherAdded, watcherClosed, watcherEvents, watcherErrors,
                   producerPc, producerName, watchCalls, workerCalls, emitted,
                   hist>>

\* Mutant of WatchReadDir: the listing is the one taken when Watch was
\* called, before the subscription.
WatchReadDir_ListedBeforeAdd ==
    /\ watchPc = "readdir"
    /\ files' = ReadDir(hist.filesAtCall)
    /\ watchPc' = "range"
    /\ UNCHANGED varsStore
    /\ UNCHANGED <<graveyardFiles, handlerKind, ctxDone, watchErr, workerPc,
                   watcherAdded, watcherClosed, watcherEvents, watcherErrors,
                   producerPc, producerName, watchCalls, workerCalls, emitted,
                   hist>>

\* line 175: ioutil.ReadDir(graveyard) lists the directory
WatchReadDir ==
    /\ watchPc = "readdir"
    /\ files' = ReadDir(graveyardFiles)
    /\ watchPc' = "range"
    /\ UNCHANGED varsStore
    /\ UNCHANGED <<graveyardFiles, handlerKind, ctxDone, watchErr, workerPc,
                   watcherAdded, watcherClosed, watcherEvents, watcherErrors,
                   producerPc, producerName, watchCalls, workerCalls, emitted,
                   hist>>

\* lines 175-178: ioutil.ReadDir fails
WatchReadDirFails ==
    /\ watchPc = "readdir"
    /\ watchPc' = "returned"
    /\ watchErr' = "failed to read graveyard dir"
    /\ UNCHANGED varsStore
    /\ UNCHANGED <<graveyardFiles, handlerKind, ctxDone, files, workerPc,
                   watcherAdded, watcherClosed, watcherEvents, watcherErrors,
                   producerPc, producerName, watchCalls, workerCalls, emitted,
                   hist>>

\* lines 180-185: the next listed file; eventHandler is called with a
\* synthetic Create event (ctx is not consulted)
WatchRangeCall ==
    /\ watchPc = "range"
    /\ files # <<>>
    /\ watchCalls' = BeginCall(watchCalls, Event(Head(files), "Create"))
    /\ files' = Tail(files)
    /\ hist' = NoteCall(FALSE)
    /\ watchPc' = "handler"
    /\ UNCHANGED varsStore
    /\ UNCHANGED <<graveyardFiles, handlerKind, ctxDone, watchErr,
                   workerPc, watcherAdded, watcherClosed, watcherEvents,
                   watcherErrors, producerPc, producerName, workerCalls,
                   emitted>>

\* Mutant of WatchRangeReturn: an error is logged and the range goes on.
WatchRangeReturn_LogsAndContinues ==
    /\ watchPc = "handler"
    /\ \E err \in HandlerErrs : watchCalls' = EndCall(watchCalls, err)
    /\ watchPc' = "range"
    /\ UNCHANGED varsStore
    /\ UNCHANGED <<graveyardFiles, handlerKind, ctxDone, watchErr, files,
                   workerPc, watcherAdded, watcherClosed, watcherEvents,
                   watcherErrors, producerPc, producerName, workerCalls,
                   emitted, hist>>

\* lines 185-189: eventHandler returns; an error ends Watch, nil goes on
WatchRangeReturn ==
    /\ watchPc = "handler"
    /\ \E err \in HandlerErrs :
         /\ watchCalls' = EndCall(watchCalls, err)
         /\ IF err
            THEN /\ watchPc' = "returned"
                 /\ watchErr' = "failed handling existing tombstone"
            ELSE /\ watchPc' = "range"
                 /\ UNCHANGED watchErr
    /\ UNCHANGED varsStore
    /\ UNCHANGED <<graveyardFiles, handlerKind, ctxDone, files, workerPc,
                   watcherAdded, watcherClosed, watcherEvents, watcherErrors,
                   producerPc, producerName, workerCalls, emitted, hist>>

\* line 191: the range is over; return nil
WatchReturn ==
    /\ watchPc = "range"
    /\ files = <<>>
    /\ watchPc' = "returned"
    /\ watchErr' = "nil"
    /\ UNCHANGED varsStore
    /\ UNCHANGED <<graveyardFiles, handlerKind, ctxDone, files, workerPc,
                   watcherAdded, watcherClosed, watcherEvents, watcherErrors,
                   producerPc, producerName, watchCalls, workerCalls, emitted,
                   hist>>

(***************************************************************************)
(* The goroutine of lines 145-168.  Go's select picks any ready case, so   *)
(* each case below is enabled whenever its channel is ready.  The `!ok`    *)
(* returns of lines 153-155 and 161-163 need a closed channel, and only    *)
(* this goroutine's deferred watcher.Close() closes them.                  *)
(***************************************************************************)
\* Mutant of WorkerDone: the goroutine returns without closing the watcher.
WorkerDone_LeavesWatcherOpen ==
    /\ workerPc = "select"
    /\ ctxDone
    /\ workerPc' = "exited"
    /\ UNCHANGED varsStore
    /\ UNCHANGED <<graveyardFiles, handlerKind, ctxDone, watchPc, watchErr,
                   files, watcherAdded, watcherClosed, watcherEvents,
                   watcherErrors, producerPc, producerName, watchCalls,
                   workerCalls, emitted, hist>>

\* lines 149-151 and the deferred line 146: ctx.Done() is ready
WorkerDone ==
    /\ workerPc = "select"
    /\ ctxDone
    /\ workerPc' = "exited"
    /\ watcherClosed' = watcherClosed + 1
    /\ UNCHANGED varsStore
    /\ UNCHANGED <<graveyardFiles, handlerKind, ctxDone, watchPc, watchErr,
                   files, watcherAdded, watcherEvents, watcherErrors,
                   producerPc, producerName, watchCalls, workerCalls, emitted,
                   hist>>

\* Mutant of WorkerEvent: the newest pending notification is received.
WorkerEvent_TakesNewest ==
    /\ workerPc = "select"
    /\ watcherEvents # <<>>
    /\ watcherEvents' = SubSeq(watcherEvents, 1, Len(watcherEvents) - 1)
    /\ workerCalls' = BeginCall(workerCalls,
                                watcherEvents[Len(watcherEvents)])
    /\ hist' = NoteCall(TRUE)
    /\ workerPc' = "handler"
    /\ UNCHANGED varsStore
    /\ UNCHANGED <<graveyardFiles, handlerKind, ctxDone, watchPc, watchErr,
                   files, watcherAdded, watcherClosed, watcherErrors,
                   producerPc, producerName, watchCalls, emitted>>

\* lines 152-156: a notification is received; eventHandler is called
WorkerEvent ==
    /\ workerPc = "select"
    /\ watcherEvents # <<>>
    /\ watcherEvents' = Tail(watcherEvents)
    /\ workerCalls' = BeginCall(workerCalls, Head(watcherEvents))
    /\ hist' = NoteCall(TRUE)
    /\ workerPc' = "handler"
    /\ UNCHANGED varsStore
    /\ UNCHANGED <<graveyardFiles, handlerKind, ctxDone, watchPc, watchErr,
                   files, watcherAdded, watcherClosed, watcherErrors,
                   producerPc, producerName, watchCalls, emitted>>

\* Mutant of WorkerEventReturn: an error makes the goroutine return.
WorkerEventReturn_ReturnsOnError ==
    /\ workerPc = "handler"
    /\ \E err \in HandlerErrs :
         /\ workerCalls' = EndCall(workerCalls, err)
         /\ IF err
            THEN workerPc' = "exited" /\ watcherClosed' = watcherClosed + 1
            ELSE workerPc' = "select" /\ UNCHANGED watcherClosed
    /\ UNCHANGED varsStore
    /\ UNCHANGED <<graveyardFiles, handlerKind, ctxDone, watchPc, watchErr,
                   files, watcherAdded, watcherEvents, watcherErrors,
                   producerPc, producerName, watchCalls, emitted, hist>>

\* lines 156-159: eventHandler returns; an error is logged, the loop goes on
WorkerEventReturn ==
    /\ workerPc = "handler"
    /\ \E err \in HandlerErrs : workerCalls' = EndCall(workerCalls, err)
    /\ workerPc' = "select"
    /\ UNCHANGED varsStore
    /\ UNCHANGED <<graveyardFiles, handlerKind, ctxDone, watchPc, watchErr,
                   files, watcherAdded, watcherClosed, watcherEvents,
                   watcherErrors, producerPc, producerName, watchCalls,
                   emitted, hist>>

\* Mutant of WorkerError: an error of the subsystem ends the goroutine.
WorkerError_Returns ==
    /\ workerPc = "select"
    /\ watcherErrors
    /\ watcherErrors' = FALSE
    /\ hist' = [hist EXCEPT !.errorLogged = TRUE]
    /\ workerPc' = "exited"
    /\ watcherClosed' = watcherClosed + 1
    /\ UNCHANGED varsStore
    /\ UNCHANGED <<graveyardFiles, handlerKind, ctxDone, watchPc, watchErr,
                   files, watcherAdded, watcherEvents, producerPc,
                   producerName, watchCalls, workerCalls, emitted>>

\* lines 160-164: an error of the subsystem is received and logged
WorkerError ==
    /\ workerPc = "select"
    /\ watcherErrors
    /\ watcherErrors' = FALSE
    /\ hist' = [hist EXCEPT !.errorLogged = TRUE]
    /\ UNCHANGED varsStore
    /\ UNCHANGED <<graveyardFiles, handlerKind, ctxDone, watchPc, watchErr,
                   files, workerPc, watcherAdded, watcherClosed,
                   watcherEvents, producerPc, producerName, watchCalls,
                   workerCalls, emitted>>

(***************************************************************************)
(* The environment of the watch: the owner of ctx, a producer running      *)
(* Tombstone.Write on the graveyard, and the notification subsystem.       *)
(***************************************************************************)
\* the caller cancels ctx
Cancel ==
    /\ ~ctxDone
    /\ ctxDone' = TRUE
    /\ UNCHANGED varsStore
    /\ UNCHANGED <<graveyardFiles, handlerKind, watchPc, watchErr, files,
                   workerPc, watcherAdded, watcherClosed, watcherEvents,
                   watcherErrors, producerPc, producerName, watchCalls,
                   workerCalls, emitted, hist>>

\* the graveyard changes while Watch is running
Changed == hist.changedDuringWatch \/ watchPc \notin {"call", "returned"}

\* line 46, os.Create(t.Path()) in a producer: the file is created (a Create
\* notification) or, when it exists, truncated (a Write notification)
ProducerCreate(name) ==
    LET event == Event(name, IF name \in graveyardFiles THEN "Write"
                                                       ELSE "Create")
    IN /\ producerPc = "idle"
       /\ hist.producerWrites < MaxProducerWrites
       /\ graveyardFiles' = graveyardFiles \cup {name}
       /\ watcherEvents' = Notify(event)
       /\ emitted' = Emit(event)
       /\ producerPc' = "created"
       /\ producerName' = name
       /\ hist' = [hist EXCEPT !.producerWrites = @ + 1,
                               !.changedDuringWatch = Changed]
       /\ UNCHANGED varsStore
       /\ UNCHANGED <<handlerKind, ctxDone, watchPc, watchErr, files,
                      workerPc, watcherAdded, watcherClosed, watcherErrors,
                      watchCalls, workerCalls>>

\* line 56, file.Write(pretty) in a producer: a Write notification
ProducerWrite ==
    LET event == Event(producerName, "Write")
    IN /\ producerPc = "created"
       /\ watcherEvents' = Notify(event)
       /\ emitted' = Emit(event)
       /\ producerPc' = "idle"
       /\ hist' = [hist EXCEPT !.changedDuringWatch = Changed]
       /\ UNCHANGED varsStore
       /\ UNCHANGED <<graveyardFiles, handlerKind, ctxDone, watchPc,
                      watchErr, files, workerPc, watcherAdded, watcherClosed,
                      watcherErrors, producerName, watchCalls, workerCalls>>

\* the notification subsystem puts an error on watcher.Errors
SubsystemError ==
    /\ Subscribed
    /\ ~watcherErrors
    /\ watcherErrors' = TRUE
    /\ UNCHANGED varsStore
    /\ UNCHANGED <<graveyardFiles, handlerKind, ctxDone, watchPc, watchErr,
                   files, workerPc, watcherAdded, watcherClosed,
                   watcherEvents, producerPc, producerName, watchCalls,
                   workerCalls, emitted, hist>>

WatchStep ==
    \/ WatchNewWatcher
    \/ WatchNewWatcherFails
    \/ WatchAdd
    \/ WatchAddFails
    \/ WatchReadDir
    \/ WatchReadDirFails
    \/ WatchRangeCall
    \/ WatchRangeReturn
    \/ WatchReturn

WorkerStep ==
    \/ WorkerDone
    \/ WorkerEvent
    \/ WorkerEventReturn
    \/ WorkerError

NextWatch ==
    \/ WatchStep
    \/ WorkerStep
    \/ Cancel
    \/ \E name \in Names : ProducerCreate(name)
    \/ ProducerWrite
    \/ SubsystemError

(***************************************************************************)
(* The tombstone store (lines 18-113).  A pointer field is the set of what *)
(* it points to: {} is nil.  The two instances name the same graveyard and *)
(* the same file, as two processes writing one tombstone do.               *)
(***************************************************************************)
Goroutines == 1..MaxGoroutines

Instances == {"t1", "t2"}

\* exit codes passed to RecordDeath
ExitCodes == {0, 1}

\* a Tombstone with no field set (lines 97-100)
Fresh == [Born |-> {}, Died |-> {}, ExitCode |-> {}]

Line(key, val) == [key |-> key, val |-> val]

\* the YAML document of a mapping without keys: "{}"
EmptyDoc == Line("{}", 0)

Field(t, key) ==
    IF t[key] = {} THEN <<>> ELSE <<Line(key, CHOOSE v \in t[key] : TRUE)>>

\* A time.Time that Time.MarshalJSON rejects (a year outside 0..9999), which
\* makes yaml.Marshal of line 52 return an error.  time.Now() never gives it:
\* the clock starts after it.
BadTime == 0

\* the times a caller may have put in the exported fields Born and Died
Times == {BadTime, 1}

\* line 52: yaml.Marshal(t) returns an error
MarshalErr(t) == BadTime \in t.Born \cup t.Died

\* Mutant of Marshal: omitempty on the value, which drops an exit code 0.
Marshal_OmitsZero(t) ==
    LET lines == Field(t, "Born") \o Field(t, "Died")
                 \o (IF t.ExitCode = {0} THEN <<>> ELSE Field(t, "ExitCode"))
    IN IF lines = <<>> THEN <<EmptyDoc>> ELSE lines

\* line 52, yaml.Marshal(t): one line per field that is set (omitempty,
\* lines 19-21), keys sorted; Graveyard and Name are left out (lines 23-24)
Marshal(t) ==
    LET lines == Field(t, "Born") \o Field(t, "Died") \o Field(t, "ExitCode")
    IN IF lines = <<>> THEN <<EmptyDoc>> ELSE lines

\* the value the last line with this key gives, as a pointer
Lookup(bytes, key) ==
    LET at == {i \in 1..Len(bytes) : bytes[i].key = key}
    IN IF at = {} THEN {}
       ELSE {bytes[CHOOSE i \in at : \A j \in at : j <= i].val}

\* yaml.Unmarshal cannot parse "{}" followed or preceded by other lines
Malformed(bytes) ==
    Len(bytes) > 1 /\ \E i \in 1..Len(bytes) : bytes[i] = EmptyDoc

\* Mutant of Unmarshal: ExitCode decoded as an int, 0 when the key is absent.
Unmarshal_ZeroWhenAbsent(bytes) ==
    [Born |-> Lookup(bytes, "Born"), Died |-> Lookup(bytes, "Died"),
     ExitCode |-> IF Lookup(bytes, "ExitCode") = {} THEN {0}
                  ELSE Lookup(bytes, "ExitCode")]

\* line 107, yaml.Unmarshal(bytes, &t): an empty document and "{}" set no
\* field
Unmarshal(bytes) ==
    [Born |-> Lookup(bytes, "Born"), Died |-> Lookup(bytes, "Died"),
     ExitCode |-> Lookup(bytes, "ExitCode")]

\* line 56, file.Write(pretty) on a descriptor opened by os.Create: the
\* bytes go to offset 0 and what the file holds beyond them stays
WriteAt0(bytes, pretty) ==
    pretty \o SubSeq(bytes, Len(pretty) + 1, Len(bytes))

NoFrame == [op |-> "none", inst |-> "none", exitCode |-> {}, stores |-> {},
            now |-> 0, pretty |-> <<>>, alone |-> TRUE]

\* t.Path() of every instance, and the arguments Read is called with
StorePath == [Graveyard |-> "/g", Name |-> "app"]

\* lastRead when no Read has just returned.  Of what Read returns, `ptr` is
\* the *Tombstone ("nil" or "&t"), `result` the fields Born, Died and
\* ExitCode of the Tombstone it points to, Graveyard and Name the other two.
NoRead == [err |-> "none", ptr |-> "none", result |-> Fresh,
           Graveyard |-> "", Name |-> ""]

InitStore ==
    /\ tomb \in [Instances -> {Fresh}]
    /\ fileLock = [i \in Instances |-> 0]
    /\ dirExists = FALSE
    /\ fileExists = FALSE
    /\ fileBytes = <<>>
    /\ pc = [g \in Goroutines |-> "idle"]
    /\ frame = [g \in Goroutines |-> NoFrame]
    /\ clock = 1
    /\ done = <<>>
    /\ lastRead = NoRead

\* the goroutines inside Write, RecordBirth or RecordDeath
Writers == {g \in Goroutines : pc[g] # "idle"}

\* calls started so far
Started == Len(done) + Cardinality(Writers)

\* A call starts in goroutine g.  History: a call is `alone` when no other
\* call of Write, RecordBirth or RecordDeath runs at any time during it.
Begin(g, op, t, exitCode, stores) ==
    [h \in Goroutines |->
        IF h = g
        THEN [op |-> op, inst |-> t, exitCode |-> exitCode,
              stores |-> stores, pretty |-> <<>>,
              now |-> IF op = "RecordDeath" THEN clock ELSE 0,
              alone |-> (Writers = {})]
        ELSE [frame[h] EXCEPT !.alone = (pc[h] = "idle")]]

\* The call of goroutine g returns err.  History: `fault` names the step of
\* Write that failed in the call ("none": every step succeeded).
Return(g, err, fault) ==
    /\ done' = Append(done, [op |-> frame[g].op, inst |-> frame[g].inst,
                             exitCode |-> frame[g].exitCode,
                             pretty |-> frame[g].pretty,
                             alone |-> frame[g].alone, err |-> err,
                             fault |-> fault])
    /\ pc' = [pc EXCEPT ![g] = "idle"]
    /\ frame' = [frame EXCEPT ![g] = NoFrame]

\* a goroutine calls t.Write() (line 35)
CallWrite(g, t) ==
    /\ pc[g] = "idle"
    /\ Started < MaxCalls
    /\ pc' = [pc EXCEPT ![g] = "lock"]
    /\ frame' = Begin(g, "Write", t, {}, {})
    /\ UNCHANGED varsWatch
    /\ UNCHANGED <<tomb, fileLock, dirExists, fileExists, fileBytes, clock,
                   done>>
    /\ lastRead' = NoRead

\* lines 60-62: t.RecordBirth(ctx) reads the clock and sets t.Born, without
\* the lock
RecordBirth(g, t) ==
    /\ pc[g] = "idle"
    /\ Started < MaxCalls
    /\ tomb' = [tomb EXCEPT ![t].Born = {clock}]
    /\ clock' = clock + 1
    /\ pc' = [pc EXCEPT ![g] = "lock"]
    /\ frame' = Begin(g, "RecordBirth", t, {}, {})
    /\ UNCHANGED varsWatch
    /\ UNCHANGED <<fileLock, dirExists, fileExists, fileBytes, done>>
    /\ lastRead' = NoRead

\* lines 72-74: t.RecordDeath(ctx, exitCode) copies the code and reads the
\* clock
RecordDeath(g, t, exitCode) ==
    /\ pc[g] = "idle"
    /\ Started < MaxCalls
    /\ clock' = clock + 1
    /\ pc' = [pc EXCEPT ![g] = "store"]
    /\ frame' = Begin(g, "RecordDeath", t, {exitCode}, {"Died", "ExitCode"})
    /\ UNCHANGED varsWatch
    /\ UNCHANGED <<tomb, fileLock, dirExists, fileExists, fileBytes, done>>
    /\ lastRead' = NoRead

\* lines 75-76: t.Died = &died and t.ExitCode = &code, without the lock.
\* Nothing orders the two stores for a goroutine that reads the fields
\* meanwhile, so either may be the first one seen.
RecordDeathStore(g, field) ==
    /\ pc[g] = "store"
    /\ field \in frame[g].stores
    /\ tomb' = [tomb EXCEPT ![frame[g].inst][field] =
                    IF field = "Died" THEN {frame[g].now}
                    ELSE frame[g].exitCode]
    /\ frame' = [frame EXCEPT ![g].stores = @ \ {field}]
    /\ pc' = [pc EXCEPT ![g] = IF frame[g].stores = {field} THEN "lock"
                               ELSE "store"]
    /\ UNCHANGED varsWatch
    /\ UNCHANGED <<fileLock, dirExists, fileExists, fileBytes, clock, done>>
    /\ lastRead' = NoRead

\* Mutant of Lock: the lock is taken without waiting for it.
Lock_NoWait(g) ==
    /\ pc[g] = "lock"
    /\ fileLock' = [fileLock EXCEPT ![frame[g].inst] = g]
    /\ pc' = [pc EXCEPT ![g] = "mkdir"]
    /\ UNCHANGED varsWatch
    /\ UNCHANGED <<tomb, dirExists, fileExists, fileBytes, frame, clock,
                   done>>
    /\ lastRead' = NoRead

\* line 37: t.fileLock.Lock()
Lock(g) ==
    /\ pc[g] = "lock"
    /\ fileLock[frame[g].inst] = 0
    /\ fileLock' = [fileLock EXCEPT ![frame[g].inst] = g]
    /\ pc' = [pc EXCEPT ![g] = "mkdir"]
    /\ UNCHANGED varsWatch
    /\ UNCHANGED <<tomb, dirExists, fileExists, fileBytes, frame, clock,
                   done>>
    /\ lastRead' = NoRead

\* line 40: os.MkdirAll(t.Graveyard, os.ModePerm)
MkdirAll(g) ==
    /\ pc[g] = "mkdir"
    /\ dirExists' = TRUE
    /\ pc' = [pc EXCEPT ![g] = "create"]
    /\ UNCHANGED varsWatch
    /\ UNCHANGED <<tomb, fileLock, fileExists, fileBytes, frame, clock,
                   done>>
    /\ lastRead' = NoRead

\* line 46: os.Create(t.Path()) creates the file or truncates it
Create(g) ==
    /\ pc[g] = "create"
    /\ fileExists' = TRUE
    /\ fileBytes' = <<>>
    /\ pc' = [pc EXCEPT ![g] = "marshal"]
    /\ UNCHANGED varsWatch
    /\ UNCHANGED <<tomb, fileLock, dirExists, frame, clock, done>>
    /\ lastRead' = NoRead

\* line 52: pretty, err := yaml.Marshal(t)
MarshalStep(g) ==
    /\ pc[g] = "marshal"
    /\ ~MarshalErr(tomb[frame[g].inst])
    /\ frame' = [frame EXCEPT ![g].pretty = Marshal(tomb[frame[g].inst])]
    /\ pc' = [pc EXCEPT ![g] = "write"]
    /\ UNCHANGED varsWatch
    /\ UNCHANGED <<tomb, fileLock, dirExists, fileExists, fileBytes, clock,
                   done>>
    /\ lastRead' = NoRead

\* lines 56-57 and the deferred lines 50 and 38: file.Write(pretty), return
\* nil, close the file, unlock
FileWrite(g) ==
    /\ pc[g] = "write"
    /\ fileBytes' = WriteAt0(fileBytes, frame[g].pretty)
    /\ fileLock' = [fileLock EXCEPT ![frame[g].inst] = 0]
    /\ Return(g, FALSE, "none")
    /\ UNCHANGED varsWatch
    /\ UNCHANGED <<tomb, dirExists, fileExists, clock>>
    /\ lastRead' = NoRead

(***************************************************************************)
(* The error returns of Write's steps.  Each runs the deferred unlock of   *)
(* line 38 on its way out.                                                 *)
(***************************************************************************)
\* lines 40-43: os.MkdirAll fails (it cannot when the directory exists);
\* Write returns the error
MkdirAllFails(g) ==
    /\ pc[g] = "mkdir"
    /\ ~dirExists
    /\ fileLock' = [fileLock EXCEPT ![frame[g].inst] = 0]
    /\ Return(g, TRUE, "mkdir")
    /\ UNCHANGED varsWatch
    /\ UNCHANGED <<tomb, dirExists, fileExists, fileBytes, clock>>
    /\ lastRead' = NoRead

\* lines 46-49: os.Create fails, the file is neither created nor truncated;
\* Write returns "failed to create tombstone file"
CreateFails(g) ==
    /\ pc[g] = "create"
    /\ fileLock' = [fileLock EXCEPT ![frame[g].inst] = 0]
    /\ Return(g, TRUE, "create")
    /\ UNCHANGED varsWatch
    /\ UNCHANGED <<tomb, dirExists, fileExists, fileBytes, clock>>
    /\ lastRead' = NoRead

\* lines 52-55: yaml.Marshal fails, after os.Create has truncated the file;
\* Write returns "failed to marshal tombstone yaml"
MarshalFails(g) ==
    /\ pc[g] = "marshal"
    /\ MarshalErr(tomb[frame[g].inst])
    /\ fileLock' = [fileLock EXCEPT ![frame[g].inst] = 0]
    /\ Return(g, TRUE, "marshal")
    /\ UNCHANGED varsWatch
    /\ UNCHANGED <<tomb, dirExists, fileExists, fileBytes, clock>>
    /\ lastRead' = NoRead

\* lines 56-57: file.Write(pretty) fails after writing the first n lines
\* (n < len); its results are discarded and Write returns nil
FileWriteFails(g) ==
    /\ pc[g] = "write"
    /\ \E n \in 0..(Len(frame[g].pretty) - 1) :
          fileBytes' = WriteAt0(fileBytes, SubSeq(frame[g].pretty, 1, n))
    /\ fileLock' = [fileLock EXCEPT ![frame[g].inst] = 0]
    /\ Return(g, FALSE, "write")
    /\ UNCHANGED varsWatch
    /\ UNCHANGED <<tomb, dirExists, fileExists, clock>>
    /\ lastRead' = NoRead

\* lines 96-113: Read(graveyard, name) of a file that is there and parses
Read(g) ==
    /\ pc[g] = "idle"
    /\ fileExists
    /\ ~Malformed(fileBytes)
    /\ lastRead' = [err |-> "nil", ptr |-> "&t",
                    result |-> Unmarshal(fileBytes),
                    Graveyard |-> StorePath.Graveyard,
                    Name |-> StorePath.Name]
    /\ UNCHANGED varsWatch
    /\ UNCHANGED <<tomb, fileLock, dirExists, fileExists, fileBytes, pc,
                   frame, clock, done>>

\* Mutant of ReadFails: a file that cannot be read is taken as empty.
ReadFails_ReturnsEmptyRecord(g) ==
    /\ pc[g] = "idle"
    /\ ~fileExists \/ Malformed(fileBytes)
    /\ lastRead' = [err |-> "nil", ptr |-> "&t", result |-> Fresh,
                    Graveyard |-> StorePath.Graveyard,
                    Name |-> StorePath.Name]
    /\ UNCHANGED varsWatch
    /\ UNCHANGED <<tomb, fileLock, dirExists, fileExists, fileBytes, pc,
                   frame, clock, done>>

\* lines 102-110: ioutil.ReadFile or yaml.Unmarshal fails; Read returns
\* nil and the error
ReadFails(g) ==
    /\ pc[g] = "idle"
    /\ ~fileExists \/ Malformed(fileBytes)
    /\ lastRead' = [err |-> IF fileExists
                            THEN "failed to unmarshal tombstone yaml"
                            ELSE "failed to read tombstone file",
                    ptr |-> "nil", result |-> Fresh,
                    Graveyard |-> "", Name |-> ""]
    /\ UNCHANGED varsWatch
    /\ UNCHANGED <<tomb, fileLock, dirExists, fileExists, fileBytes, pc,
                   frame, clock, done>>

NextStore ==
    \/ \E g \in Goroutines, t \in Instances : CallWrite(g, t)
    \/ \E g \in Goroutines, t \in Instances : RecordBirth(g, t)
    \/ \E g \in Goroutines, t \in Instances, exitCode \in ExitCodes :
          RecordDeath(g, t, exitCode)
    \/ \E g \in Goroutines, field \in {"Died", "ExitCode"} :
          RecordDeathStore(g, field)
    \/ \E g \in Goroutines : Lock(g)
    \/ \E g \in Goroutines : MkdirAll(g)
    \/ \E g \in Goroutines : Create(g)
    \/ \E g \in Goroutines : MarshalStep(g)
    \/ \E g \in Goroutines : FileWrite(g)
    \/ \E g \in Goroutines : Read(g)
    \/ \E g \in Goroutines : ReadFails(g)

\* the store with the error returns of Write's steps
NextStoreFaults ==
    \/ NextStore
    \/ \E g \in Goroutines : MkdirAllFails(g)
    \/ \E g \in Goroutines : CreateFails(g)
    \/ \E g \in Goroutines : MarshalFails(g)
    \/ \E g \in Goroutines : FileWriteFails(g)

(***************************************************************************)
(* Specifications.  Each runs one part; the other part stays at rest.      *)
(***************************************************************************)
WatchAtRest ==
    /\ graveyardFiles = {}
    /\ handlerKind = "ok"
    /\ ctxDone = FALSE
    /\ watchPc = "call"
    /\ watchErr = "pending"
    /\ files = <<>>
    /\ workerPc = "none"
    /\ watcherAdded = FALSE
    /\ watcherClosed = 0
    /\ watcherEvents = <<>>
    /\ watcherErrors = FALSE
    /\ producerPc = "idle"
    /\ producerName = 0
    /\ watchCalls = <<>>
    /\ workerCalls = <<>>
    /\ emitted = <<>>
    /\ hist = [filesAtCall |-> {}, changedDuringWatch |-> FALSE,
               producerWrites |-> 0, calledAfterDone |-> FALSE,
               liveBeforeReturn |-> FALSE, errorLogged |-> FALSE]

StoreAtRest ==
    /\ tomb = [i \in Instances |-> Fresh]
    /\ fileLock = [i \in Instances |-> 0]
    /\ dirExists = FALSE
    /\ fileExists = FALSE
    /\ fileBytes = <<>>
    /\ pc = [g \in Goroutines |-> "idle"]
    /\ frame = [g \in Goroutines |-> NoFrame]
    /\ clock = 1
    /\ done = <<>>
    /\ lastRead = NoRead

InitSpecWatch == InitWatch /\ StoreAtRest

SpecWatch == InitSpecWatch /\ [][NextWatch]_vars

\* The Go scheduler runs every runnable goroutine, select picks among its
\* ready cases at random, and every eventHandler invocation returns.  Which
\* of a step's outcomes happens (success or an I/O failure) is not fair.
FairnessWatch ==
    /\ WF_vars(WatchStep)
    /\ WF_vars(WorkerDone)
    /\ WF_vars(WorkerEvent)
    /\ WF_vars(WorkerEventReturn)
    /\ WF_vars(WorkerError)

FairSpecWatch == SpecWatch /\ FairnessWatch

\* The watch with an eventHandler that always succeeds.
InitSpecWatchOk == InitSpecWatch /\ handlerKind = "ok"

FairSpecWatchOk ==
    InitSpecWatchOk /\ [][NextWatch]_vars /\ FairnessWatch

\* The watch on a graveyard that is empty at first.
InitSpecWatchEmpty == InitSpecWatch /\ graveyardFiles = {}

FairSpecWatchEmpty ==
    InitSpecWatchEmpty /\ [][NextWatch]_vars /\ FairnessWatch

InitSpecStore == InitStore /\ WatchAtRest

SpecStore == InitSpecStore /\ [][NextStore]_vars

\* a record whose Born the caller has set to a time yaml.Marshal rejects
Rotten == [Fresh EXCEPT !.Born = {BadTime}]

\* The store with I/O and serialization failures: one process holds a fresh
\* record, the other a fresh or a rotten one.
InitSpecStoreFaults ==
    /\ tomb \in {t \in [Instances -> {Fresh, Rotten}] : t["t1"] = Fresh}
    /\ fileLock = [i \in Instances |-> 0]
    /\ dirExists = FALSE
    /\ fileExists = FALSE
    /\ fileBytes = <<>>
    /\ pc = [g \in Goroutines |-> "idle"]
    /\ frame = [g \in Goroutines |-> NoFrame]
    /\ clock = 1
    /\ done = <<>>
    /\ lastRead = NoRead
    /\ WatchAtRest

SpecStoreFaults == InitSpecStoreFaults /\ [][NextStoreFaults]_vars

\* a pointer field: nil or the address of one of the values
Pointers(values) == {{}} \cup {{v} : v \in values}

\* the Tombstones a caller can build: any subset of Born, Died and ExitCode
\* set (the fields are exported)
Records ==
    [Born : Pointers(Times), Died : Pointers(Times),
     ExitCode : Pointers(ExitCodes)]

\* Write and Read on records the callers have populated themselves.
InitSpecRoundTrip ==
    /\ tomb \in [Instances -> Records]
    /\ fileLock = [i \in Instances |-> 0]
    /\ dirExists = FALSE
    /\ fileExists = FALSE
    /\ fileBytes = <<>>
    /\ pc = [g \in Goroutines |-> "idle"]
    /\ frame = [g \in Goroutines |-> NoFrame]
    /\ clock = 1
    /\ done = <<>>
    /\ lastRead = NoRead
    /\ WatchAtRest

NextRoundTrip ==
    \/ \E g \in Goroutines, t \in Instances : CallWrite(g, t)
    \/ \E g \in Goroutines : Lock(g)
    \/ \E g \in Goroutines : MkdirAll(g)
    \/ \E g \in Goroutines : Create(g)
    \/ \E g \in Goroutines : MarshalStep(g)
    \/ \E g \in Goroutines : MarshalFails(g)
    \/ \E g \in Goroutines : FileWrite(g)
    \/ \E g \in Goroutines : Read(g)
    \/ \E g \in Goroutines : ReadFails(g)

SpecRoundTrip == InitSpecRoundTrip /\ [][NextRoundTrip]_vars

(***************************************************************************)
(* Properties of the watch.                                                *)
(***************************************************************************)
SetupErrors == {"failed to create watcher", "failed to add watcher",
                "failed to read graveyard dir"}

HandlerError == "failed handling existing tombstone"

\* the notifications the goroutine has handed to eventHandler, in order
WorkerHandled ==
    [i \in 1..Len(workerCalls) |->
        Event(workerCalls[i].Name, workerCalls[i].Op)]

\* a listed file whose synthetic event eventHandler has not been called with
UndeliveredBootstrap == watchPc \in {"range", "handler"} /\ files # <<>>

\* eventHandler has been called with a Create event for the file
CreateDelivered(name) ==
    \/ \E i \in 1..Len(watchCalls) :
          watchCalls[i].Name = name /\ watchCalls[i].Op = "Create"
    \/ \E i \in 1..Len(workerCalls) :
          workerCalls[i].Name = name /\ workerCalls[i].Op = "Create"

\* C1: once ctx has been cancelled, eventHandler is never invoked again for
\* the watch, neither by the goroutine (also with a notification pending at
\* the moment of cancellation) nor by the range of Watch.
C1_NoCallAfterCancel == ~hist.calledAfterDone

\* C2: at most one eventHandler invocation of a watch is in progress at any
\* time: an invocation for a synthetic event and one for a notification
\* never overlap.
C2_OneCallAtATime == ~(watchPc = "handler" /\ workerPc = "handler")

BootstrapExact ==
    /\ \A f \in hist.filesAtCall :
          Cardinality({i \in 1..Len(watchCalls) :
              watchCalls[i].Name = f /\ watchCalls[i].Op = "Create"}) = 1
    /\ Len(watchCalls) = Cardinality(hist.filesAtCall)
    /\ \A i \in 1..Len(workerCalls) :
          ~(workerCalls[i].Op = "Create"
              /\ workerCalls[i].Name \in hist.filesAtCall)
    /\ ~hist.liveBeforeReturn

C6_BootstrapBeforeLive == ~(workerPc = "handler" /\ UndeliveredBootstrap)

\* C7: for a watch that is established, not cancelled and whose eventHandler
\* succeeds, every file that is in the graveyard when Watch is called or is
\* created after the call leads to an eventHandler invocation with a Create
\* event for it.
C7_NoMissedDelivery ==
    \A name \in Names :
        (name \in graveyardFiles /\ watchPc # "call")
        ~> \/ CreateDelivered(name)
           \/ ctxDone
           \/ handlerKind # "ok"
           \/ watchErr \in SetupErrors

\* a file created between the subscription and the listing is delivered
\* by the range and by the goroutine
C7_Witness ==
    /\ handlerKind = "ok"
    /\ ~ctxDone
    /\ watchErr = "nil"
    /\ \E name \in Names \ hist.filesAtCall :
          /\ \E i \in 1..Len(watchCalls) : watchCalls[i].Name = name
          /\ \E i \in 1..Len(workerCalls) :
                workerCalls[i].Name = name /\ workerCalls[i].Op = "Create"

\* Watch was called on an empty graveyard and returned nil before anything
\* changed the graveyard
StartedOnEmpty ==
    /\ watchPc = "returned"
    /\ watchErr = "nil"
    /\ hist.filesAtCall = {}
    /\ ~hist.changedDuringWatch

\* the goroutine has handed eventHandler a Create notification for the file
\* and, in a later invocation, a Write notification for it
CreateThenWrite(name) ==
    \E i, j \in 1..Len(workerCalls) :
        /\ i < j
        /\ workerCalls[i].Name = name /\ workerCalls[i].Op = "Create"
        /\ workerCalls[i].err # "running"
        /\ workerCalls[j].Name = name /\ workerCalls[j].Op = "Write"

\* C12: for a watch on an empty graveyard that returned from Watch before
\* a tombstone is written (and that is not cancelled), eventHandler gets no
\* synthetic event, the notifications reach it in the order the subsystem
\* emitted them, a Write notification for a file only after the Create
\* notification for it has been handled, and once the tombstone is written
\* eventHandler gets the Create and later the Write notification for it.
C12_CreateThenWriteObserved ==
    /\ [](StartedOnEmpty =>
            /\ watchCalls = <<>>
            /\ WorkerHandled \o watcherEvents = emitted
            /\ \A j \in 1..Len(workerCalls) :
                  workerCalls[j].Op = "Write" =>
                      \E i \in 1..(j - 1) :
                          /\ workerCalls[i].Name = workerCalls[j].Name
                          /\ workerCalls[i].Op = "Create"
                          /\ workerCalls[i].err # "running")
    /\ \A name \in Names :
          (StartedOnEmpty /\ name \in graveyardFiles /\ producerPc = "idle")
          ~> (CreateThenWrite(name) \/ ctxDone)

C12_Witness ==
    /\ StartedOnEmpty
    /\ ~ctxDone
    /\ Len(workerCalls) = 2
    /\ workerCalls[2].err # "running"
    /\ CreateThenWrite(producerName)
    /\ emitted = WorkerHandled

\* C15: when Watch has returned an error because creating the watcher,
\* subscribing to the graveyard or listing it failed, no goroutine of the
\* watch is running and no subscription is open.
C15_NoWorkerAfterFailedWatch ==
    (watchPc = "returned" /\ watchErr \in SetupErrors)
    => (workerPc \in {"none", "exited"} /\ ~Subscribed)

\* C16: once ctx is cancelled, the goroutine of the watch, whose
\* eventHandler invocations return, eventually leaves its loop and exits,
\* and watcher.Close() runs exactly once: when it exits, never again.
C16_CancelTerminatesWorker ==
    /\ (ctxDone /\ workerPc \in {"select", "handler"})
          ~> (workerPc = "exited" /\ watcherClosed = 1)
    /\ [](watcherClosed = IF workerPc = "exited" THEN 1 ELSE 0)
    /\ [][workerPc = "exited" => workerPc' = "exited"]_vars

\* cancelled inside eventHandler with a notification still pending
C16_Witness ==
    /\ ctxDone
    /\ hist.calledAfterDone = FALSE
    /\ workerPc = "exited"
    /\ watcherClosed = 1
    /\ workerCalls # <<>>
    /\ watcherEvents # <<>>

\* the goroutine has logged an error of the subsystem or a failure of
\* eventHandler
Troubled ==
    \/ hist.errorLogged
    \/ \E i \in 1..Len(workerCalls) : workerCalls[i].err = "error"

\* C17: the goroutine of a watch exits only because ctx was cancelled: when
\* it has exited ctx is cancelled, no step taken while ctx is not cancelled
\* (receiving an error of the subsystem, a failing eventHandler) makes it
\* exit or closes the watcher, and after such an error the goroutine still
\* hands eventHandler, in order, every notification emitted so far, unless
\* ctx is cancelled.
C17_WorkerStopsOnlyOnCancel ==
    /\ [](workerPc = "exited" => ctxDone)
    /\ [](~ctxDone => watcherClosed = 0)
    /\ [][~ctxDone' => (workerPc' # "exited"
                          /\ watcherClosed' = watcherClosed)]_vars
    /\ [](WorkerHandled \o watcherEvents = emitted)
    /\ Troubled ~> (Len(workerCalls) = Len(emitted) \/ ctxDone)

\* an error of the subsystem was logged, eventHandler failed on the first
\* notification, and the second has been handled all the same
C17_Witness ==
    /\ ~ctxDone
    /\ hist.errorLogged
    /\ Len(workerCalls) = 2
    /\ workerCalls[1].err = "error"
    /\ workerCalls[2].err # "running"
    /\ workerPc = "select"
    /\ watcherClosed = 0

(***************************************************************************)
(* Properties of the store.                                                *)
(***************************************************************************)
\* between t.fileLock.Lock() and the return of Write (lines 40-57)
InWrite(g) == pc[g] \in {"mkdir", "create", "marshal", "write"}

LastDone == done[Len(done)]

\* C8: Write calls on one shared instance never interleave their steps
\* directory-ensure, create/truncate, serialize and write, and when all of
\* them have returned the file holds the complete serialization produced by
\* one of them, the last.
C8_InstanceWriteSerialization ==
    /\ \A g, h \in Goroutines :
          (g # h /\ InWrite(g) /\ InWrite(h))
          => frame[g].inst # frame[h].inst
    /\ (Writers = {} /\ Len(done) >= 2
          /\ \A i \in 1..Len(done) : done[i].inst = done[1].inst)
       => fileBytes = LastDone.pretty

\* two overlapping calls on one instance that serialize different records
C8_Witness ==
    /\ Writers = {}
    /\ Len(done) = 2
    /\ done[1].inst = done[2].inst
    /\ ~done[1].alone
    /\ ~done[2].alone
    /\ done[1].pretty # done[2].pretty
    /\ fileBytes = done[2].pretty

\* C9: when two different instances Write to the same path concurrently,
\* then after both calls have returned the file holds exactly the
\* serialization of the call that completed last.
C9_LastWriteWins ==
    (Writers = {} /\ Len(done) = 2 /\ done[1].inst # done[2].inst)
    => fileBytes = done[2].pretty

\* the record was fresh, t.RecordBirth returned nil, nothing else wrote
Birthed(t) ==
    /\ Writers = {}
    /\ Len(done) = 1
    /\ done[1].op = "RecordBirth"
    /\ done[1].inst = t
    /\ ~done[1].err

\* ... and then t.RecordDeath(ctx, 0) was called and returned nil
Buried(t) ==
    /\ Writers = {}
    /\ Len(done) = 2
    /\ done[1].op = "RecordBirth" /\ done[1].inst = t /\ ~done[1].err
    /\ done[2].op = "RecordDeath" /\ done[2].inst = t /\ ~done[2].err
    /\ done[2].exitCode = {0}
    /\ done[1].alone /\ done[2].alone

\* C10: for a fresh record, a Read after RecordBirth returned success
\* returns Born set and Died and ExitCode unset; a Read after a following
\* RecordDeath(0) returned success returns all three set, ExitCode = 0 and
\* Born as recorded at birth.
C10_BirthThenDeath ==
    \A t \in Instances :
        /\ (Birthed(t) /\ lastRead.err # "none")
           => /\ lastRead.err = "nil"
              /\ lastRead.result.Born # {}
              /\ lastRead.result.Born = tomb[t].Born
              /\ lastRead.result.Died = {}
              /\ lastRead.result.ExitCode = {}
        /\ (Buried(t) /\ lastRead.err # "none")
           => /\ lastRead.err = "nil"
              /\ lastRead.result.Born # {}
              /\ lastRead.result.Born = Lookup(done[1].pretty, "Born")
              /\ lastRead.result.Died # {}
              /\ lastRead.result.Died = tomb[t].Died
              /\ lastRead.result.ExitCode = {0}

C10_Witness ==
    \E t \in Instances :
        /\ Buried(t)
        /\ lastRead.err = "nil"
        /\ lastRead.result.ExitCode = {0}
        /\ lastRead.result.Born # {}

\* C11: a failure of directory creation, of file creation or of writing the
\* content makes Write return an error, and whenever a Write that no other
\* writer overlaps returns no error the file holds the complete
\* serialization of the record.
C11_WriteFailuresSurfaced ==
    /\ \A i \in 1..Len(done) : done[i].fault # "none" => done[i].err
    /\ (Writers = {} /\ done # <<>> /\ LastDone.alone /\ ~LastDone.err)
       => (fileExists /\ fileBytes = LastDone.pretty)

\* the last call of Write returned nil, no other writer ran during it or
\* runs since, and Read has just returned
ReadAfterWrite ==
    /\ done # <<>>
    /\ Writers = {}
    /\ LastDone.alone
    /\ ~LastDone.err
    /\ lastRead.err # "none"

\* C13: for every subset of Born, Died and ExitCode set on a record, a
\* successful Write followed, with no other writer in between, by Read on
\* the same graveyard and name returns a record with exactly that subset
\* set, to equal values, and with the arguments of Read as Graveyard and
\* Name.
C13_RoundTrip ==
    ReadAfterWrite =>
        /\ lastRead.err = "nil"
        /\ lastRead.ptr = "&t"
        /\ lastRead.result = tomb[LastDone.inst]
        /\ lastRead.Graveyard = StorePath.Graveyard
        /\ lastRead.Name = StorePath.Name

\* a record with Died and an exit code 0 but no Born, which RecordBirth
\* and RecordDeath never produce
C13_Witness ==
    /\ ReadAfterWrite
    /\ Len(done) = 2
    /\ lastRead.result.Born = {}
    /\ lastRead.result.Died # {}
    /\ lastRead.result.ExitCode = {0}
    /\ done[1].pretty # done[2].pretty

\* C14: Read on a path at which no file exists returns an error and no
\* record (a nil *Tombstone), never a record with all fields unset.
C14_AbsenceIsAnError ==
    (lastRead.err # "none" /\ ~fileExists)
    => /\ lastRead.err = "failed to read tombstone file"
       /\ lastRead.ptr = "nil"

\* Read while the first Write has made the directory but not yet the file
C14_Witness ==
    /\ dirExists
    /\ ~fileExists
    /\ lastRead.err = "failed to read tombstone file"
    /\ lastRead.ptr = "nil"

\* every call made so far, returned or running, is on one shared instance
OneInstance ==
    \E t \in Instances :
        /\ \A i \in 1..Len(done) : done[i].inst = t
        /\ \A g \in Goroutines : frame[g].inst \in {"none", t}

\* C18: in every content of the file produced by calls of RecordBirth,
\* RecordDeath and Write on one shared instance, Died is present if and
\* only if ExitCode is present.
C18_DiedWithExitCode ==
    OneInstance =>
        (Lookup(fileBytes, "Died") = {} <=> Lookup(fileBytes, "ExitCode") = {})

\* C19: once RecordBirth has returned nil, every Read that returns nil, also
\* while a RecordDeath on the same record is in progress, returns a record
\* with Born set.
C19_BornStaysObserved ==
    (/\ OneInstance
     /\ \E i \in 1..Len(done) : done[i].op = "RecordBirth" /\ ~done[i].err
     /\ lastRead.err = "nil")
    => lastRead.result.Born # {}

\* C20: when a Write that no other writer overlaps returns an error, the
\* file is as it was before the call (absent for a first call, the
\* serialization of the successful call before it otherwise) and the
\* instance's lock is free.
C20_FailedWriteChangesNothing ==
    /\ (Writers = {} /\ Len(done) = 1 /\ done[1].err)
       => (~fileExists /\ \A t \in Instances : fileLock[t] = 0)
    /\ (/\ Writers = {}
        /\ Len(done) = 2
        /\ done[1].alone /\ ~done[1].err /\ done[1].fault = "none"
        /\ done[2].alone /\ done[2].err)
       => /\ fileExists
          /\ fileBytes = done[1].pretty
          /\ \A t \in Instances : fileLock[t] = 0

====
